---- MODULE Spec2Model ----
(***************************************************************************)
(* Listing catalog and rating aggregation of the campus-connect backend.   *)
(* The store is the three PostgreSQL tables the route handlers query; each *)
(* pool.query statement is one atomic step (autocommit), and a handler is  *)
(* the sequence of its statements, so statements of different handlers may *)
(* interleave between the awaits of one handler.                           *)
(***************************************************************************)
EXTENDS Integers, Sequences, FiniteSets, TLC

\* ------------------------------------------------------------------ bounds
NumUsers == 3
NumSellers == 2
MaxListings == 2
MaxRatings == 3
MaxConcRatings == 2
MaxHandlers == 2
MaxSeed == 5
MaxCatalog == 3
NumPrior == 1

\* ------------------------------------------------------- program constants
MinRating == 1
MaxRating == 5

VARIABLES listings, ratings, users, nextListingId, nextRatingId, hs, pre

vars == <<listings, ratings, users, nextListingId, nextRatingId, hs, pre>>
store == <<listings, ratings, users, nextListingId, nextRatingId>>

Users == 1..NumUsers
Handlers == 1..MaxHandlers

\* SQL NULL in a numeric column
Null == -1

\* the role column of a user, copied into the token payload at login
Role(u) == IF u = 1 THEN "admin" ELSE "user"

\* req.user as the auth middleware supplies it: the verified token payload
authMiddleware(u) == [userId |-> u, role |-> Role(u)]

Identities == {authMiddleware(u) : u \in Users}

\* the administrator, and the seller of the listings that get rated
Admin == authMiddleware(1)
Seller == authMiddleware(2)

\* no (valid) bearer token: currentUserId stays null
NoIdentity == [userId |-> 0, role |-> "none"]

\* ------------------------------------------------------------ JSON values
Num(n) == [t |-> "num", v |-> n]
Str(s) == [t |-> "str", v |-> s]

Arr(seq) == [t |-> "arr", v |-> seq]
JNull == [t |-> "null", v |-> 0]
Undefined == [t |-> "undefined", v |-> 0]
NaN == [nan |-> TRUE, v |-> 0]

\* the strings of the model and the characters they are made of
Strings == {"", " ", "Book", " Book ", "Pen", "OO", "red", "M", "abc"}

Chars(s) ==
    CASE s = "" -> <<>>
      [] s = " " -> <<" ">>
      [] s = "Book" -> <<"B", "o", "o", "k">>
      [] s = " Book " -> <<" ", "B", "o", "o", "k", " ">>
      [] s = "Pen" -> <<"P", "e", "n">>
      [] s = "OO" -> <<"O", "O">>
      [] s = "red" -> <<"r", "e", "d">>
      [] s = "M" -> <<"M">>
      [] s = "abc" -> <<"a", "b", "c">>

Text(cs) == CHOOSE s \in Strings : Chars(s) = cs

RECURSIVE TrimStart(_)
TrimStart(cs) == IF cs # <<>> /\ Head(cs) = " " THEN TrimStart(Tail(cs)) ELSE cs

RECURSIVE TrimEnd(_)
TrimEnd(cs) ==
    IF cs # <<>> /\ cs[Len(cs)] = " " THEN TrimEnd(SubSeq(cs, 1, Len(cs) - 1)) ELSE cs

\* String.prototype.trim
Trim(s) == Text(TrimEnd(TrimStart(Chars(s))))

\* JavaScript Number(x): a number is itself, null and a blank string are 0,
\* undefined and any other string of the model are NaN
Number(x) ==
    IF x.t = "num" THEN [nan |-> FALSE, v |-> x.v]
    ELSE IF x.t = "null" \/ (x.t = "str" /\ Trim(x.v) = "") THEN [nan |-> FALSE, v |-> 0]
    ELSE NaN

\* parseInt(x) of a query-string value: the integer it spells, else NaN
parseInt(x) == IF x.t = "num" THEN [nan |-> FALSE, v |-> x.v] ELSE NaN

\* x || d on a number: NaN and 0 are falsy
OrDefault(x, d) == IF x.nan \/ x.v = 0 THEN d ELSE x.v

\* ------------------------------------------------------------- aggregates
RECURSIVE SumRating(_)
SumRating(S) ==
    IF S = {} THEN 0
    ELSE LET r == CHOOSE x \in S : TRUE IN r.rating + SumRating(S \ {r})

RatingsOf(rows, lid) == {r \in rows : r.listing_id = lid}

\* SELECT COUNT(*) FROM ratings WHERE listing_id = $1
CountRatings(rows, lid) == Cardinality(RatingsOf(rows, lid))

\* the number of rows whose value has the fraction .5: a rating value is
\* rating + half/2, with half 0 or 1
Halves(S) == Cardinality({r \in S : r.half = 1})

\* SELECT AVG(rating)::numeric(3,2) FROM ratings WHERE listing_id = $1,
\* in hundredths; NULL over no rows; the cast rounds half away from zero
AvgRating(rows, lid) ==
    LET S == RatingsOf(rows, lid)
        n == Cardinality(S)
    IN IF S = {} THEN Null
       ELSE (200 * SumRating(S) + 100 * Halves(S) + n) \div (2 * n)

\* COALESCE(x, 0)
Coalesce(x, d) == IF x = Null THEN d ELSE x

\* ------------------------------------------------------ handler book-keeping
NoInfo == [listing_id |-> 0, user_id |-> 0]
NoResp == [status |-> 0, message |-> "", data |-> <<>>]
NoBody == [none |-> 0]

\* a free worker of the request-handler pool
Idle == [op |-> "none", pc |-> "idle", user |-> NoIdentity, lid |-> 0, rid |-> 0,
         val |-> 0, body |-> NoBody, updates |-> NoBody, info |-> NoInfo,
         resp |-> NoResp, conc |-> FALSE]

InFlight(h) == h.pc \notin {"idle", "done"}
AllIdle == \A k \in Handlers : hs[k].pc = "idle"
Quiescent == \A k \in Handlers : ~InFlight(hs[k])

\* the first free worker k takes request h; conc records that some other
\* handler was between two of its statements while this one ran (and the
\* converse)
Begin(k, h) ==
    /\ hs[k].pc = "idle"
    /\ \A j \in Handlers : j < k => hs[j].pc # "idle"
    /\ hs' = [j \in Handlers |->
                IF j = k THEN [h EXCEPT !.conc = \E i \in Handlers \ {k} : InFlight(hs[i])]
                ELSE IF InFlight(hs[j]) /\ InFlight(h) THEN [hs[j] EXCEPT !.conc = TRUE]
                ELSE hs[j]]

Req(op, user, lid, rid, val, body) ==
    [Idle EXCEPT !.op = op, !.user = user, !.lid = lid, !.rid = rid, !.val = val,
                 !.body = body]

\* res.status(status).json({message, ...data}) ends the handler
Reply(h, status, message, data) ==
    [h EXCEPT !.pc = "done",
              !.resp = [status |-> status, message |-> message, data |-> data]]

Goto(h, pc) == [h EXCEPT !.pc = pc]

\* err.message of a pool.query that rejects
StoreError == "connection terminated unexpectedly"

\* the catch block of the handler's route: res.status(500).json({message}),
\* the one of PATCH /:id with error: err.message as well
Catch(h, err) ==
    Reply(h, 500,
          CASE h.op = "list" -> "Failed to fetch listings"
            [] h.op = "create" -> "Failed to create listing"
            [] h.op = "rate" -> "Failed to submit rating"
            [] h.op = "patch" -> "Failed to update listing"
            [] OTHER -> "Server error",
          IF h.op = "patch" THEN [error |-> err] ELSE <<>>)

\* the response has been sent: the worker is free again
Respond(k) ==
    /\ hs[k].pc = "done"
    /\ hs' = [hs EXCEPT ![k] = Idle]
    /\ UNCHANGED <<store, pre>>

\* --------------------------------------------------------------- listings
\* column defaults of a freshly inserted listing row
ColumnDefaults == [rating_count |-> 0, average_rating |-> 0, image_url |-> ""]

ValidBody == [title |-> Str("Book"), price |-> Num(10)]

CreateBodies ==
    {ValidBody,
     [title |-> Str("Book"), price |-> Num(0)],
     [title |-> Str(""), price |-> Num(10)],
     [title |-> Str("Book"), price |-> Num(10), stock_quantity |-> Num(0)]}

CatalogBodies == {ValidBody, [title |-> Str("Book"), price |-> Num(0)]}

Field(body, f, default) == IF f \in DOMAIN body THEN body[f] ELSE default

\* ------------------------------------------------------------- variants
\* x || '' : undefined, null, '' and 0 are falsy
OrEmpty(x) ==
    IF x.t \in {"undefined", "null"} \/ (x.t = "str" /\ x.v = "") \/ (x.t = "num" /\ x.v = 0)
    THEN Str("")
    ELSE x

\* (x || '').trim() of a value that is a string; on any other value it throws
Option(x) == Trim(OrEmpty(x).v)

\* the filter callback throws a TypeError: the entry is null, or the option
\* it evaluates is neither falsy nor a string
VariantThrows(v) ==
    \/ "t" \in DOMAIN v
    \/ OrEmpty(Field(v, "color", Undefined)).t # "str"
    \/ /\ Option(Field(v, "color", Undefined)) = ""
       /\ OrEmpty(Field(v, "size", Undefined)).t # "str"

\* hasOption && stockValid
VariantKept(v) ==
    /\ \/ Option(Field(v, "color", Undefined)) # ""
       \/ Option(Field(v, "size", Undefined)) # ""
    /\ ~Number(Field(v, "stock", Undefined)).nan
    /\ Number(Field(v, "stock", Undefined)).v >= 0

\* variants.filter(v => ...): the kept entries in order, unless an entry throws
Sanitize(vs) ==
    IF \E i \in DOMAIN vs : VariantThrows(vs[i])
    THEN [threw |-> TRUE, v |-> <<>>]
    ELSE [threw |-> FALSE, v |-> SelectSeq(vs, VariantKept)]

\* what becomes of a request whose async handler rejects outside any try:
\* no response from the handler, or the 500 of the global error handler
UncaughtOutcomes == {0, 500}

\* !price || isNaN(price) || price <= 0
CreatePriceRejectedMut(price) == Number(price).nan

CreatePriceRejected(price) == Number(price).nan \/ Number(price).v <= 0

\* POST /api/listings: validation, the variants filter, then one INSERT
Create(k, user, body) ==
    LET h == Req("create", user, 0, 0, 0, body)
        title == Field(body, "title", Undefined)
        stock == Number(Field(body, "stock_quantity", Num(1)))
        variants == Field(body, "variants", Arr(<<>>))
    IN
    IF title.t \in {"undefined", "null"} \/ (title.t = "str" /\ Trim(title.v) = "")
    THEN Begin(k, Reply(h, 400, "Title is required", <<>>)) /\ UNCHANGED store
    ELSE IF title.t # "str"
    THEN /\ \E st \in UncaughtOutcomes : Begin(k, Reply(h, st, "TypeError", <<>>))
         /\ UNCHANGED store
    ELSE IF CreatePriceRejected(Field(body, "price", Undefined))
    THEN Begin(k, Reply(h, 400, "Valid positive price required", <<>>))
         /\ UNCHANGED store
    ELSE IF ~stock.nan /\ stock.v < 1
    THEN Begin(k, Reply(h, 400, "Stock quantity must be at least 1", <<>>))
         /\ UNCHANGED store
    ELSE IF variants.t # "arr"
    THEN Begin(k, Reply(h, 400, "Variants must be an array", <<>>))
         /\ UNCHANGED store
    ELSE IF Sanitize(variants.v).threw
    THEN /\ \E st \in UncaughtOutcomes : Begin(k, Reply(h, st, "TypeError", <<>>))
         /\ UNCHANGED store
    ELSE /\ listings' =
              [i \in DOMAIN listings \cup {nextListingId} |->
                 IF i = nextListingId
                 THEN [user_id |-> user.userId, status |-> "pending",
                       title |-> Trim(title.v),
                       price |-> Number(body.price).v,
                       stock_quantity |-> stock.v,
                       category |-> Field(body, "category", Str("Other")).v,
                       variants |-> Sanitize(variants.v).v,
                       image_url |-> ColumnDefaults.image_url,
                       rating_count |-> ColumnDefaults.rating_count,
                       average_rating |-> ColumnDefaults.average_rating]
                 ELSE listings[i]]
         /\ nextListingId' = nextListingId + 1
         /\ Begin(k, Reply(h, 201, "Listing created successfully (pending approval)",
                           [id |-> nextListingId, status |-> "pending"]))
         /\ UNCHANGED <<users, ratings, nextRatingId>>

\* ----------------------------------------------------------------- rating
RatingInputs == {0, 1, 5, 6}
ValidRatings == {v \in RatingInputs : MinRating <= v /\ v <= MaxRating}

\* !rating || rating < 1 || rating > 5, on the value rating + half/2
\* (0 stands for a missing rating as well)
RatingRejected(rating, half) ==
    \/ rating = 0 /\ half = 0
    \/ 2 * rating + half < 2 * MinRating
    \/ 2 * rating + half > 2 * MaxRating

\* SELECT id FROM ratings WHERE listing_id = $1 AND user_id = $2
ExistingMut(rows, lid, uid) == {}

Existing(rows, lid, uid) == {r \in rows : r.listing_id = lid /\ r.user_id = uid}

\* UPDATE listings SET rating_count = rating_count + 1, average_rating = (AVG)
RateAggregateMut(l, rows, lid) ==
    [l EXCEPT !.rating_count = l.rating_count + 1]

RateAggregate(l, rows, lid) ==
    [l EXCEPT !.rating_count = l.rating_count + 1,
              !.average_rating = AvgRating(rows, lid)]

\* UPDATE listings SET rating_count = (COUNT), average_rating = COALESCE(AVG, 0)
DeleteAggregateMut(l, rows, lid) ==
    [l EXCEPT !.rating_count = IF l.rating_count > 0 THEN l.rating_count - 1 ELSE 0]

DeleteAggregate(l, rows, lid) ==
    [l EXCEPT !.rating_count = CountRatings(rows, lid),
              !.average_rating = Coalesce(AvgRating(rows, lid), 0)]

\* POST /api/listings/:id/rating: range check, then SELECT id FROM listings
Rate(k, user, lid, rating, half) ==
    LET h == Req("rate", user, lid, 0, rating, [half |-> half]) IN
    /\ UNCHANGED store
    /\ IF RatingRejected(rating, half)
       THEN Begin(k, Reply(h, 400, "Rating must be between 1 and 5", <<>>))
       ELSE IF lid \notin DOMAIN listings
       THEN Begin(k, Reply(h, 404, "Listing not found", <<>>))
       ELSE Begin(k, Goto(h, "rate_existing"))

RateExisting(k) ==
    LET h == hs[k] IN
    /\ h.pc = "rate_existing"
    /\ hs' = [hs EXCEPT ![k] =
                IF Existing(ratings, h.lid, h.user.userId) # {}
                THEN Reply(h, 400, "You have already rated this listing", <<>>)
                ELSE Goto(h, "rate_insert")]
    /\ UNCHANGED <<store, pre>>

RateInsert(k) ==
    LET h == hs[k] IN
    /\ h.pc = "rate_insert"
    /\ ratings' = ratings \cup {[id |-> nextRatingId, listing_id |-> h.lid,
                                 user_id |-> h.user.userId, rating |-> h.val,
                                 half |-> h.body.half]}
    /\ nextRatingId' = nextRatingId + 1
    /\ hs' = [hs EXCEPT ![k] = Goto(h, "rate_update")]
    /\ UNCHANGED <<users, listings, nextListingId, pre>>

RateUpdate(k) ==
    LET h == hs[k] IN
    /\ h.pc = "rate_update"
    /\ listings' = [i \in DOMAIN listings |->
                      IF i = h.lid THEN RateAggregate(listings[i], ratings, i)
                      ELSE listings[i]]
    /\ hs' = [hs EXCEPT ![k] = Reply(h, 201, "Rating submitted successfully", <<>>)]
    /\ UNCHANGED <<users, ratings, nextListingId, nextRatingId, pre>>

\* owner of the listing or admin
MayDeleteRatingMut(user, ownerId) == TRUE

MayDeleteRating(user, ownerId) == user.userId = ownerId \/ user.role = "admin"

\* DELETE /api/listings/ratings/:ratingId: SELECT ... FROM ratings r JOIN listings l
DeleteRating(k, user, rid) ==
    LET h == Req("deleteRating", user, 0, rid, 0, NoBody)
        rows == {r \in ratings : r.id = rid /\ r.listing_id \in DOMAIN listings}
    IN
    /\ UNCHANGED store
    /\ IF rows = {}
       THEN Begin(k, Reply(h, 404, "Rating not found", <<>>))
       ELSE LET r == CHOOSE x \in rows : TRUE
                info == [listing_id |-> r.listing_id,
                         user_id |-> listings[r.listing_id].user_id]
            IN IF ~MayDeleteRating(user, info.user_id)
               THEN Begin(k, Reply(h, 403, "Not authorized to delete this rating", <<>>))
               ELSE Begin(k, [Goto(h, "dr_delete") EXCEPT !.info = info])

DeleteRatingDelete(k) ==
    LET h == hs[k] IN
    /\ h.pc = "dr_delete"
    /\ ratings' = {r \in ratings : r.id # h.rid}
    /\ hs' = [hs EXCEPT ![k] = Goto(h, "dr_update")]
    /\ UNCHANGED <<users, listings, nextListingId, nextRatingId, pre>>

DeleteRatingUpdate(k) ==
    LET h == hs[k] IN
    /\ h.pc = "dr_update"
    /\ listings' = [i \in DOMAIN listings |->
                      IF i = h.info.listing_id
                      THEN DeleteAggregate(listings[i], ratings, i)
                      ELSE listings[i]]
    /\ hs' = [hs EXCEPT ![k] = Reply(h, 200, "Rating deleted successfully", <<>>)]
    /\ UNCHANGED <<users, ratings, nextListingId, nextRatingId, pre>>

\* -------------------------------------------------------- account deletion
\* DELETE /api/users/me: DELETE FROM ratings WHERE user_id = $1
DeleteAccount(k, user) ==
    LET h == Req("deleteAccount", user, 0, 0, 0, NoBody) IN
    /\ ratings' = {r \in ratings : r.user_id # user.userId}
    /\ Begin(k, Goto(h, "da_listings"))
    /\ UNCHANGED <<users, listings, nextListingId, nextRatingId>>

\* DELETE FROM listings WHERE user_id = $1
DeleteAccountListings(k) ==
    LET h == hs[k] IN
    /\ h.pc = "da_listings"
    /\ listings' = [i \in {j \in DOMAIN listings : listings[j].user_id # h.user.userId}
                      |-> listings[i]]
    /\ hs' = [hs EXCEPT ![k] = Goto(h, "da_user")]
    /\ UNCHANGED <<users, ratings, nextListingId, nextRatingId, pre>>

\* DELETE FROM users WHERE id = $1 RETURNING id
DeleteAccountUser(k) ==
    LET h == hs[k] IN
    /\ h.pc = "da_user"
    /\ users' = users \ {h.user.userId}
    /\ hs' = [hs EXCEPT ![k] =
                IF h.user.userId \notin users
                THEN Reply(h, 404, "User not found", <<>>)
                ELSE Reply(h, 200, "Your account and all associated data have been "
                                   \o "permanently deleted.", <<>>)]
    /\ UNCHANGED <<listings, ratings, nextListingId, nextRatingId, pre>>

\* ----------------------------------------------------------- moderation
StatusInputs == {"approved", "rejected", "pending"}

StatusAcceptedMut(status) == TRUE

\* ['approved', 'rejected'].includes(status)
StatusAccepted(status) == status \in {"approved", "rejected"}

\* PATCH /api/admin/listings/:id: UPDATE listings SET status = $1 WHERE id = $2
Moderate(k, user, lid, status) ==
    LET h == Req("moderate", user, lid, 0, 0, [status |-> status]) IN
    IF ~StatusAccepted(status)
    THEN Begin(k, Reply(h, 400, "Invalid status value", <<>>)) /\ UNCHANGED store
    ELSE IF lid \notin DOMAIN listings
    THEN Begin(k, Reply(h, 404, "Listing not found", <<>>)) /\ UNCHANGED store
    ELSE /\ listings' = [listings EXCEPT ![lid].status = status]
         /\ Begin(k, Reply(h, 200, "Listing " \o status, [id |-> lid, status |-> status]))
         /\ UNCHANGED <<users, ratings, nextListingId, nextRatingId>>

\* ------------------------------------------------------------------ patch
allowedFields == {"title", "description", "price", "condition", "whatsapp_phone",
                  "image_url", "image_urls", "stock_quantity", "category", "variants"}

PatchBodies ==
    {[price |-> Num(20)],
     [price |-> Num(20), status |-> Str("approved")],
     [title |-> Str("Pen"), price |-> Str("abc")],
     [price |-> Num(20), stock_quantity |-> Num(-1)],
     [status |-> Str("approved"), user_id |-> Num(1)]}

\* the whitelisted keys of req.body
Updates(body) == [f \in DOMAIN body \cap allowedFields |-> body[f]]

PriceRejected(updates) ==
    "price" \in DOMAIN updates
    /\ (Number(updates.price).nan \/ Number(updates.price).v <= 0)

StockRejectedMut(updates) == FALSE

StockRejected(updates) ==
    "stock_quantity" \in DOMAIN updates
    /\ (Number(updates.stock_quantity).nan \/ Number(updates.stock_quantity).v < 0)

\* updates after the in-place coercion of price and stock_quantity
Coerced(updates) ==
    [f \in DOMAIN updates |->
        IF f \in {"price", "stock_quantity"} THEN Number(updates[f]).v
        ELSE IF f = "variants" THEN updates[f]
        ELSE updates[f].v]

\* ownershipCheck.rows[0].user_id !== userId is the refusal
PatchAuthorizedMut(user, ownerId) == user.userId = ownerId \/ user.role = "admin"

PatchAuthorized(user, ownerId) == user.userId = ownerId

cleanListing(row) ==
    [row EXCEPT !.average_rating = Coalesce(row.average_rating, 0)]

\* PATCH /api/listings/:id up to the ownership SELECT and the SET list
Patch(k, user, lid, body) ==
    LET h == Req("patch", user, lid, 0, 0, body)
        updates == Updates(body)
    IN
    /\ UNCHANGED store
    /\ IF DOMAIN updates = {}
       THEN Begin(k, Reply(h, 400, "No valid fields provided for update", <<>>))
       ELSE IF PriceRejected(updates)
       THEN Begin(k, Reply(h, 400, "Price must be a positive number", <<>>))
       ELSE IF StockRejected(updates)
       THEN Begin(k, Reply(h, 400, "Stock quantity cannot be negative", <<>>))
       ELSE IF lid \notin DOMAIN listings
       THEN Begin(k, Reply(h, 404, "Listing not found", <<>>))
       ELSE IF ~PatchAuthorized(user, listings[lid].user_id)
       THEN Begin(k, Reply(h, 403, "You are not authorized to edit this listing", <<>>))
       ELSE Begin(k, [Goto(h, "patch_update") EXCEPT !.updates = Coerced(updates)])

\* the SET list (variants must be an array and is filtered), then
\* UPDATE listings SET ... WHERE id = $n RETURNING *
PatchUpdate(k) ==
    LET h == hs[k]
        variants == Field(h.updates, "variants", Arr(<<>>))
    IN
    /\ h.pc = "patch_update"
    /\ IF variants.t # "arr"
       THEN /\ hs' = [hs EXCEPT ![k] = Reply(h, 400, "Variants must be an array", <<>>)]
            /\ UNCHANGED listings
       ELSE IF Sanitize(variants.v).threw
       THEN /\ hs' = [hs EXCEPT ![k] = Catch(h, "TypeError")]
            /\ UNCHANGED listings
       ELSE IF h.lid \notin DOMAIN listings
       THEN /\ hs' = [hs EXCEPT ![k] = Reply(h, 404, "Listing not found", <<>>)]
            /\ UNCHANGED listings
       ELSE LET row == [f \in DOMAIN listings[h.lid] |->
                          IF f \notin DOMAIN h.updates THEN listings[h.lid][f]
                          ELSE IF f = "variants" THEN Sanitize(variants.v).v
                          ELSE h.updates[f]]
            IN /\ listings' = [listings EXCEPT ![h.lid] = row]
               /\ hs' = [hs EXCEPT ![k] = Reply(h, 200, "", cleanListing(row))]
    /\ UNCHANGED <<users, ratings, nextListingId, nextRatingId, pre>>

\* ------------------------------------------------------------- delete
\* isOwner || isAdmin
MayDeleteListingMut(user, ownerId) == user.userId = ownerId

MayDeleteListing(user, ownerId) == user.userId = ownerId \/ user.role = "admin"

\* DELETE /api/listings/:id: SELECT user_id FROM listings WHERE id = $1
Delete(k, user, lid) ==
    LET h == Req("delete", user, lid, 0, 0, NoBody) IN
    /\ UNCHANGED store
    /\ IF lid \notin DOMAIN listings
       THEN Begin(k, Reply(h, 404, "Listing not found", <<>>))
       ELSE IF ~MayDeleteListing(user, listings[lid].user_id)
       THEN Begin(k, Reply(h, 403, "Permission denied", <<>>))
       ELSE Begin(k, Goto(h, "delete_delete"))

\* DELETE FROM listings WHERE id = $1
DeleteDelete(k) ==
    LET h == hs[k] IN
    /\ h.pc = "delete_delete"
    /\ listings' = [i \in DOMAIN listings \ {h.lid} |-> listings[i]]
    /\ hs' = [hs EXCEPT ![k] = Reply(h, 200, "Listing deleted successfully", <<>>)]
    /\ UNCHANGED <<users, ratings, nextListingId, nextRatingId, pre>>

\* ------------------------------------------------------- listings by owner
\* ids in created_at DESC order (created_at follows the serial id)
RECURSIVE Descending(_)
Descending(S) ==
    IF S = {} THEN <<>>
    ELSE LET m == CHOOSE x \in S : \A y \in S : y <= x
         IN <<m>> \o Descending(S \ {m})

\* GET /api/listings/user/:userId: WHERE user_id = $1 [AND status = 'approved']
ListingsByOwner(k, requester, userId) ==
    LET h == Req("listingsByOwner", requester, userId, 0, 0, NoBody)
        isOwner == requester.userId = userId
        rows == {i \in DOMAIN listings :
                    /\ listings[i].user_id = userId
                    /\ (isOwner \/ listings[i].status = "approved")}
        ids == Descending(rows)
    IN
    /\ UNCHANGED store
    /\ Begin(k, Reply(h, 200, "success",
                      [n \in 1..Len(ids) |->
                          [id |-> ids[n], status |-> listings[ids[n]].status]]))

\* ------------------------------------------------------------ public reads
DefaultPage == 1
DefaultLimit == 24
MaxLimit == 100

LowerChar(c) ==
    CASE c = "B" -> "b" [] c = "O" -> "o" [] c = "P" -> "p" [] c = "M" -> "m"
      [] OTHER -> c

LowerChars(cs) == [i \in DOMAIN cs |-> LowerChar(cs[i])]

\* text ILIKE '%' || pattern || '%'
ILike(text, pattern) ==
    LET t == LowerChars(Chars(text))
        p == LowerChars(Chars(pattern))
    IN \E i \in 0..(Len(t) - Len(p)) : SubSeq(t, i + 1, i + Len(p)) = p

\* l.status = 'approved'
VisibleMut(l) == TRUE

Visible(l) == l.status = "approved"

\* the WHERE clause of the list read path
Where(l, search, category) ==
    /\ Visible(l)
    /\ (search # "" => ILike(l.title, search))
    /\ ((category # "" /\ category # "All") => l.category = category)

\* (page - 1) * limit
OffsetMut(page, limit) == page * limit

Offset(page, limit) == (page - 1) * limit

\* ORDER BY l.price ASC | l.price DESC | l.created_at DESC over ids:
\* created_at follows the serial id; rows of equal sort key come in any order
OrderedBy(ids, sort) ==
    \A i, j \in DOMAIN ids :
        i < j =>
            IF sort = "price-low" THEN listings[ids[i]].price <= listings[ids[j]].price
            ELSE IF sort = "price-high" THEN listings[ids[i]].price >= listings[ids[j]].price
            ELSE ids[i] > ids[j]

Orders(S, sort) ==
    {ids \in [1..Cardinality(S) -> S] :
        /\ \A i, j \in DOMAIN ids : i # j => ids[i] # ids[j]
        /\ OrderedBy(ids, sort)}

\* LIMIT $n OFFSET $m
Window(ids, limit, offset) ==
    IF offset >= Len(ids) THEN <<>>
    ELSE SubSeq(ids, offset + 1, IF offset + limit < Len(ids) THEN offset + limit
                                 ELSE Len(ids))

\* Math.ceil(total / limit)
Ceil(total, limit) == (total + limit - 1) \div limit

\* GET /api/listings: parameters, validation, then the listings query
List(k, q) ==
    LET h == Req("list", NoIdentity, 0, 0, 0, q)
        page == OrDefault(parseInt(Field(q, "page", Str(""))), DefaultPage)
        limit == OrDefault(parseInt(Field(q, "limit", Str(""))), DefaultLimit)
        sort == IF Field(q, "sort", "") = "" THEN "newest" ELSE q.sort
        search == Trim(Field(q, "search", ""))
        category == Field(q, "category", "")
        rows == {i \in DOMAIN listings : Where(listings[i], search, category)}
    IN
    /\ UNCHANGED store
    /\ IF page < 1 \/ limit < 1 \/ limit > MaxLimit
       THEN Begin(k, Reply(h, 400, "Invalid page or limit", <<>>))
       ELSE \E ids \in Orders(rows, sort) :
               LET items == Window(ids, limit, Offset(page, limit)) IN
               Begin(k, [Goto(h, "list_total") EXCEPT
                           !.updates = [page |-> page, limit |-> limit, sort |-> sort,
                                        search |-> search, category |-> category],
                           !.info = [n \in DOMAIN items |->
                                       [id |-> items[n],
                                        price |-> listings[items[n]].price]]])

\* SELECT COUNT(*) FROM listings l WHERE ..., then the response
ListTotal(k) ==
    LET h == hs[k]
        u == h.updates
        total == Cardinality({i \in DOMAIN listings :
                                 Where(listings[i], u.search, u.category)})
    IN
    /\ h.pc = "list_total"
    /\ hs' = [hs EXCEPT ![k] =
                Reply(h, 200, "success",
                      [data |-> h.info,
                       pagination |-> [currentPage |-> u.page,
                                       totalPages |-> Ceil(total, u.limit),
                                       totalItems |-> total,
                                       hasNext |-> u.page * u.limit < total,
                                       hasPrev |-> u.page > 1]])]
    /\ UNCHANGED <<store, pre>>

\* GET /api/listings/:id: WHERE l.id = $1 AND l.status = 'approved'
GetById(k, user, lid) ==
    LET h == Req("getById", user, lid, 0, 0, NoBody) IN
    /\ UNCHANGED store
    /\ IF lid \notin DOMAIN listings \/ ~Visible(listings[lid])
       THEN Begin(k, Reply(h, 404, "Listing not found or not approved", <<>>))
       ELSE Begin(k, Reply(h, 200, "", [id |-> lid, row |-> cleanListing(listings[lid])]))

\* ------------------------------------------------------------ behaviours
Snapshot == [listings |-> listings, ratings |-> ratings]

Init ==
    /\ listings = [i \in {} |-> 0]
    /\ ratings = {}
    /\ users = Users
    /\ nextListingId = 1
    /\ nextRatingId = 1
    /\ hs = [k \in Handlers |-> Idle]
    /\ pre = Snapshot

ListingIds == 1..MaxListings

\* the rating behaviours follow the ratings of one listing, the first created
RatedListings == {1}

\* the identities acting on the catalog: the admin and sellers
Sellers == {authMiddleware(u) : u \in 1..NumSellers}

DoCreate(k, ids, who, bodies) ==
    /\ nextListingId \in ids
    /\ \E u \in who, b \in bodies : Create(k, u, b)
DoRate(k, cap, inputs) ==
    /\ nextRatingId <= cap
    /\ \E u \in Identities, l \in RatedListings, v \in inputs : Rate(k, u, l, v, 0)
DoDeleteRating(k, who, cap) == \E u \in who, r \in 1..cap : DeleteRating(k, u, r)
DoModerate(k) ==
    \E u \in Sellers, l \in ListingIds, s \in StatusInputs : Moderate(k, u, l, s)
DoPatch(k) == \E u \in Sellers, l \in ListingIds, b \in PatchBodies : Patch(k, u, l, b)
DoDelete(k) == \E u \in Sellers, l \in ListingIds : Delete(k, u, l)
DoListingsByOwner(k) ==
    \E u \in Sellers \cup {NoIdentity}, o \in 1..NumSellers : ListingsByOwner(k, u, o)

\* the later statements of the handlers
RateSteps(k) == RateExisting(k) \/ RateInsert(k) \/ RateUpdate(k)
DeleteRatingSteps(k) == DeleteRatingDelete(k) \/ DeleteRatingUpdate(k)

\* Rating requests one at a time: worker 1 takes a request only when no
\* request is pending, so each call runs to completion before the next.
SeqRequest ==
    /\ AllIdle
    /\ pre' = Snapshot
    /\ (DoCreate(1, RatedListings, Identities, CreateBodies)
        \/ DoRate(1, MaxRatings, RatingInputs)
        \/ DoDeleteRating(1, Identities, MaxRatings))

SeqStep == RateSteps(1) \/ DeleteRatingSteps(1) \/ Respond(1)

SeqNext == SeqRequest \/ SeqStep

SpecSeq == Init /\ [][SeqNext]_vars

\* Catalog requests one at a time: create, moderate, patch, delete, read.
CatRequest ==
    /\ AllIdle
    /\ pre' = Snapshot
    /\ \/ DoCreate(1, ListingIds, Sellers, CatalogBodies)
       \/ DoModerate(1)
       \/ DoPatch(1)
       \/ DoDelete(1)
       \/ DoListingsByOwner(1)

CatStep == PatchUpdate(1) \/ DeleteDelete(1) \/ Respond(1)

CatNext == CatRequest \/ CatStep

SpecCat == Init /\ [][CatNext]_vars

\* rate and deleteRating handlers of the worker pool running concurrently
ConcRequest ==
    /\ UNCHANGED pre
    /\ \E k \in Handlers :
          \/ DoCreate(k, RatedListings, {Seller}, {ValidBody})
          \/ DoRate(k, MaxConcRatings, ValidRatings)
          \/ DoDeleteRating(k, Identities, MaxConcRatings)

ConcStep == \E k \in Handlers : RateSteps(k) \/ DeleteRatingSteps(k) \/ Respond(k)

ConcNext == ConcRequest \/ ConcStep

SpecConc == Init /\ [][ConcNext]_vars

\* deleteRating handlers running concurrently on a listing that MaxSeed users
\* have rated one after the other (row i is user i's, the raters being
\* interchangeable the values are taken in non-decreasing order), with no
\* rate handler; each worker of the pool serves one deleteRating request
SeedValues == {MinRating, MaxRating}
Moderators == {Seller, Admin}

InitDel ==
    /\ \E f \in [1..MaxSeed -> SeedValues] :
          /\ \A i, j \in 1..MaxSeed : i < j => f[i] <= f[j]
          /\ ratings = {[id |-> i, listing_id |-> 1, user_id |-> i, rating |-> f[i],
                         half |-> 0] : i \in 1..MaxSeed}
    /\ listings = [i \in {1} |->
                     [user_id |-> Seller.userId, status |-> "pending", title |-> "Book",
                      price |-> 10, stock_quantity |-> 1, category |-> "Other",
                      variants |-> <<>>, image_url |-> ColumnDefaults.image_url,
                      rating_count |-> MaxSeed,
                      average_rating |-> AvgRating(ratings, 1)]]
    /\ users = Users
    /\ nextListingId = 2
    /\ nextRatingId = MaxSeed + 1
    /\ hs = [k \in Handlers |-> Idle]
    /\ pre = Snapshot

DelRequest ==
    /\ UNCHANGED pre
    /\ \E k \in Handlers : DoDeleteRating(k, Moderators, MaxSeed)

DelStep == \E k \in Handlers : DeleteRatingSteps(k)

DelNext == DelRequest \/ DelStep

SpecDel == InitDel /\ [][DelNext]_vars

\* The public read paths over a moderated catalog, one request at a time.
ReadBodies ==
    {[title |-> Str("Book"), price |-> Num(10), category |-> Str("Books")],
     [title |-> Str("Pen"), price |-> Num(10)],
     [title |-> Str("Book"), price |-> Num(20)]}

PageInputs == {Num(0), Num(1), Num(2), Num(-1)}
LimitInputs == {Num(0), Num(1), Num(2), Num(MaxLimit + 1)}
SortInputs == {"price-low", "price-high", "oldest"}

ListQueries ==
    {<<>>}
    \cup {[page |-> p, limit |-> l] : p \in PageInputs, l \in LimitInputs}
    \cup {[page |-> p] : p \in PageInputs}
    \cup {[limit |-> l] : l \in LimitInputs}
    \cup {[sort |-> o] : o \in SortInputs}
    \cup {[category |-> c, limit |-> Num(1)] : c \in {"All", "Books"}}
    \cup {[search |-> t] : t \in {"OO", " "}}

CatalogIds == 1..MaxCatalog

DoList(k) == \E q \in ListQueries : List(k, q)
DoGetById(k) == \E u \in {NoIdentity, Seller, Admin}, l \in CatalogIds : GetById(k, u, l)

ReadRequest ==
    /\ AllIdle
    /\ pre' = Snapshot
    /\ \/ DoCreate(1, CatalogIds, {Seller}, ReadBodies)
       \/ \E l \in CatalogIds, st \in {"approved", "rejected"} : Moderate(1, Admin, l, st)
       \/ DoList(1)
       \/ DoGetById(1)

ReadStep == ListTotal(1) \/ Respond(1)

ReadNext == ReadRequest \/ ReadStep

SpecRead == Init /\ [][ReadNext]_vars

\* Creating and patching listings with variants, one request at a time.
\* entries of a variants array: records of optional color, size and stock
Variant ==
    [good |-> [color |-> Str("red"), stock |-> Num(2)],
     size |-> [size |-> Str("M"), stock |-> Num(0)],
     blank |-> [color |-> Str(" "), stock |-> Num(1)],
     negative |-> [color |-> Str("red"), stock |-> Num(-1)],
     noStock |-> [color |-> Str("red")],
     textStock |-> [size |-> Str("M"), stock |-> Str("abc")],
     nullStock |-> [size |-> Str("M"), stock |-> JNull],
     numColor |-> [color |-> Num(5), stock |-> Num(1)]]

VariantInputs ==
    {<<>>,
     <<Variant.good, Variant.blank, Variant.size>>,
     <<Variant.good, Variant.size>>,
     <<Variant.negative, Variant.noStock, Variant.textStock>>,
     <<Variant.good, Variant.nullStock>>,
     <<Variant.good, JNull>>,
     <<Variant.numColor>>}

EditBodies ==
    {[title |-> Str(" Book "), price |-> Num(10), variants |-> Arr(vs)] :
        vs \in VariantInputs}
    \cup {ValidBody,
          [title |-> Str(" "), price |-> Num(10)],
          [title |-> Num(5), price |-> Num(10)],
          [title |-> Str("Book"), price |-> Num(0)],
          [title |-> Str("Book"), price |-> Str("abc")],
          [title |-> Str("Book"), price |-> Num(10), stock_quantity |-> Num(0)],
          [title |-> Str("Book"), price |-> Num(10), variants |-> Str("abc")]}

EditPatches ==
    {[variants |-> Arr(vs)] : vs \in VariantInputs}
    \cup {[status |-> Str("approved"), user_id |-> Num(1)],
          [image_url |-> Str("abc")],
          [price |-> Num(20), status |-> Str("approved")],
          [title |-> Str("Pen"), price |-> Str("abc")],
          [title |-> Str("Pen"), stock_quantity |-> Num(-1)],
          [title |-> Str("Pen"), variants |-> Str("abc")]}

EditRequest ==
    /\ AllIdle
    /\ pre' = Snapshot
    /\ \/ DoCreate(1, ListingIds, {Seller}, EditBodies)
       \/ \E u \in Moderators, l \in ListingIds, b \in EditPatches : Patch(1, u, l, b)

EditStep == PatchUpdate(1) \/ Respond(1)

EditNext == EditRequest \/ EditStep

SpecEdit == Init /\ [][EditNext]_vars

\* Rating requests with whole and fractional values, one at a time.
RangeRequest ==
    /\ AllIdle
    /\ pre' = Snapshot
    /\ \/ DoCreate(1, RatedListings, {Seller}, {ValidBody})
       \/ /\ nextRatingId <= MaxRatings
          /\ \E u \in Identities, l \in ListingIds, v \in RatingInputs, f \in {0, 1} :
                Rate(1, u, l, v, f)

RangeStep == RateSteps(1) \/ Respond(1)

RangeNext == RangeRequest \/ RangeStep

SpecRange == Init /\ [][RangeNext]_vars

\* rate handlers and deletes of the rated listing running concurrently
OrphanRequest ==
    /\ UNCHANGED pre
    /\ \E k \in Handlers :
          \/ DoCreate(k, RatedListings, {Seller}, {ValidBody})
          \/ DoRate(k, MaxConcRatings, {MaxRating})
          \/ \E u \in Moderators, l \in RatedListings : Delete(k, u, l)

OrphanStep == \E k \in Handlers : RateSteps(k) \/ DeleteDelete(k) \/ Respond(k)

OrphanNext == OrphanRequest \/ OrphanStep

SpecOrphan == Init /\ [][OrphanNext]_vars

\* rate handlers running concurrently on a listing that NumPrior earlier
\* users (ids above NumUsers) have rated one after the other, with no
\* deleteRating handler; each worker of the pool serves one rate request
InitRaters ==
    /\ \E f \in [1..NumPrior -> SeedValues] :
          /\ \A i, j \in 1..NumPrior : i < j => f[i] <= f[j]
          /\ ratings = {[id |-> i, listing_id |-> 1, user_id |-> NumUsers + i,
                         rating |-> f[i], half |-> 0] : i \in 1..NumPrior}
    /\ listings = [i \in {1} |->
                     [user_id |-> Seller.userId, status |-> "pending", title |-> "Book",
                      price |-> 10, stock_quantity |-> 1, category |-> "Other",
                      variants |-> <<>>, image_url |-> ColumnDefaults.image_url,
                      rating_count |-> NumPrior,
                      average_rating |-> AvgRating(ratings, 1)]]
    /\ users = Users
    /\ nextListingId = 2
    /\ nextRatingId = NumPrior + 1
    /\ hs = [k \in Handlers |-> Idle]
    /\ pre = Snapshot

RatersRequest ==
    /\ UNCHANGED pre
    /\ \E k \in Handlers : DoRate(k, NumPrior + MaxHandlers, SeedValues)

RatersStep == \E k \in Handlers : RateSteps(k)

RatersNext == RatersRequest \/ RatersStep

SpecRaters == InitRaters /\ [][RatersNext]_vars

\* the pool.query that handler k awaits rejects: the statement has no effect
\* and the catch block answers (the UPDATE of a patch is reached only with a
\* variants value that passed the SET loop)
StoreFails(k) ==
    LET h == hs[k]
        variants == Field(h.updates, "variants", Arr(<<>>))
    IN
    /\ InFlight(h)
    /\ h.pc = "patch_update" => variants.t = "arr" /\ ~Sanitize(variants.v).threw
    /\ hs' = [hs EXCEPT ![k] = Catch(h, StoreError)]
    /\ UNCHANGED <<store, pre>>

Operations ==
    {"list", "getById", "listingsByOwner", "create", "rate", "patch", "delete",
     "deleteRating", "moderate"}

\* the first pool.query of a request that passed its validation rejects
FailFirst(k) ==
    /\ UNCHANGED store
    /\ \E op \in Operations :
          Begin(k, Catch(Req(op, Seller, 1, 1, MaxRating, [half |-> 0]), StoreError))

\* Requests one at a time with store failures: any pool.query may reject, and
\* the caller of a failed rate or deleteRating may send the same call again
\* (worker 2 serves it while worker 1 still shows the failure response).
FailRequest ==
    /\ AllIdle
    /\ pre' = Snapshot
    /\ \/ DoCreate(1, RatedListings, {Seller}, {ValidBody})
       \/ DoRate(1, MaxConcRatings, SeedValues)
       \/ DoDeleteRating(1, Moderators, MaxConcRatings)
       \/ Patch(1, Seller, 1, [price |-> Num(20)])
       \/ FailFirst(1)

FailRetry ==
    LET h == hs[1] IN
    /\ h.pc = "done" /\ h.resp.status = 500
    /\ pre' = Snapshot
    /\ \/ h.op = "rate" /\ Rate(2, h.user, h.lid, h.val, h.body.half)
       \/ h.op = "deleteRating" /\ DeleteRating(2, h.user, h.rid)

FailStep ==
    \/ \E k \in Handlers : RateSteps(k) \/ DeleteRatingSteps(k) \/ StoreFails(k)
    \/ PatchUpdate(1)
    \/ Respond(2)
    \/ hs[2].pc = "idle" /\ Respond(1)

FailNext == FailRequest \/ FailRetry \/ FailStep

SpecFail == Init /\ [][FailNext]_vars

\* Rating and account-deletion requests one at a time
AccountRequest ==
    /\ AllIdle
    /\ pre' = Snapshot
    /\ \/ DoCreate(1, RatedListings, Sellers, {ValidBody})
       \/ DoRate(1, MaxRatings, SeedValues)
       \/ \E u \in Identities : DeleteAccount(1, u)

AccountStep ==
    RateSteps(1) \/ DeleteAccountListings(1) \/ DeleteAccountUser(1) \/ Respond(1)

AccountNext == AccountRequest \/ AccountStep

SpecAccount == Init /\ [][AccountNext]_vars

Next ==
    SeqNext \/ CatNext \/ ConcNext \/ DelNext \/ ReadNext \/ EditNext \/ RangeNext
    \/ OrphanNext \/ RatersNext \/ FailNext \/ AccountNext

Spec == Init /\ [][Next]_vars

\* ------------------------------------------------------------- properties
Abs(x) == IF x < 0 THEN 0 - x ELSE x

Rows(lid) == {r \in ratings : r.listing_id = lid}

CountMatches(lid) == listings[lid].rating_count = Cardinality(Rows(lid))

\* average_rating (in hundredths) is exactly the mean, 0 over no rows
MeanExact(lid) ==
    LET n == Cardinality(Rows(lid)) IN
    IF n = 0 THEN listings[lid].average_rating = 0
    ELSE listings[lid].average_rating * n = 100 * SumRating(Rows(lid))

\* average_rating is the mean rounded to two decimal places, 0 over no rows
MeanRounded(lid) ==
    LET n == Cardinality(Rows(lid)) IN
    IF n = 0 THEN listings[lid].average_rating = 0
    ELSE 2 * Abs(listings[lid].average_rating * n - 100 * SumRating(Rows(lid))) <= n

Done(k, op) == hs[k].pc = "done" /\ hs[k].op = op

\* the deleteRating handlers that have completed successfully after running
\* while another handler was between its statements
OverlappedDeletes ==
    {k \in Handlers : Done(k, "deleteRating") /\ hs[k].resp.status = 200 /\ hs[k].conc}

DistinctTargets(K) == \A i, j \in K : i # j => hs[i].rid # hs[j].rid

\* C1 as stated: after any sequence of rate and deleteRating calls run one
\* after the other on a listing that started with no ratings, rating_count
\* is the number of its rating rows and average_rating is exactly their mean
\* (0 when there are none).
C1_SequentialExactMean ==
    Quiescent => \A lid \in DOMAIN listings : CountMatches(lid) /\ MeanExact(lid)

\* C1 amended: after any such sequence rating_count is the number of rating
\* rows and average_rating is their mean rounded to two decimal places (the
\* numeric(3,2) scale of the recompute), 0 when there are none.
C1_SequentialRatingInvariant ==
    Quiescent => \A lid \in DOMAIN listings : CountMatches(lid) /\ MeanRounded(lid)

\* a deleteRating has just succeeded on a listing three users had rated
C1_Witness ==
    /\ Done(1, "deleteRating")
    /\ hs[1].resp.status = 200
    /\ \E lid \in DOMAIN listings :
          Cardinality(Rows(lid)) = 2 /\ listings[lid].rating_count = 2

\* C2: for every interleaving of concurrent rate and deleteRating handlers on
\* one listing, once all handlers have completed rating_count is the number
\* of its rating rows and average_rating is their mean (0 when none).
C2_ConcurrentRatingInvariant ==
    Quiescent => \A lid \in DOMAIN listings : CountMatches(lid) /\ MeanExact(lid)

\* C3 as stated: once two or more concurrently running deleteRating handlers
\* for distinct ratings of a listing have completed (no rate running),
\* rating_count is the number of remaining rows and average_rating is exactly
\* their mean (0 when none remain).
C3_ConcurrentDeletesExactMean ==
    (Quiescent /\ Cardinality(OverlappedDeletes) >= 2
       /\ DistinctTargets(OverlappedDeletes))
    => \A lid \in DOMAIN listings : CountMatches(lid) /\ MeanExact(lid)

\* C3 amended: once they have completed, rating_count is the number of
\* remaining rows and average_rating is their mean rounded to two decimal
\* places (0 when none remain).
C3_ConcurrentDeletesConverge ==
    (Quiescent /\ Cardinality(OverlappedDeletes) >= 2
       /\ DistinctTargets(OverlappedDeletes))
    => \A lid \in DOMAIN listings : CountMatches(lid) /\ MeanRounded(lid)

\* two overlapping deleteRating handlers for distinct ratings have completed
C3_Witness ==
    /\ Quiescent
    /\ Cardinality(OverlappedDeletes) >= 2
    /\ DistinctTargets(OverlappedDeletes)
    /\ Cardinality(Rows(1)) = MaxSeed - 2

\* C4: in every reachable state, also under concurrent rate requests of one
\* user for one listing, there is at most one rating row per
\* (listing_id, user_id) pair.
C4_RatingUniqueness ==
    \A r1, r2 \in ratings :
        (r1.listing_id = r2.listing_id /\ r1.user_id = r2.user_id) => r1 = r2

\* the user of request h had a rating on the listing when the call was issued
HadRated(h) ==
    \E r \in pre.ratings : r.listing_id = h.lid /\ r.user_id = h.user.userId

StoreAsBefore == listings = pre.listings /\ ratings = pre.ratings

\* C5: a rate call by a user who already has a rating on the listing returns
\* a validation error, the duplicate one whenever the value is in range, and
\* leaves the rating rows, rating_count and average_rating unchanged.
C5_DuplicateRejected ==
    \A k \in Handlers :
        (Done(k, "rate") /\ HadRated(hs[k]))
        => /\ hs[k].resp.status = 400
           /\ (hs[k].val \in MinRating..MaxRating
                 => hs[k].resp.message = "You have already rated this listing")
           /\ StoreAsBefore

\* a second in-range rate call of the same user has been rejected as duplicate
C5_Witness ==
    /\ Done(1, "rate")
    /\ HadRated(hs[1])
    /\ hs[1].val \in MinRating..MaxRating
    /\ hs[1].resp.message = "You have already rated this listing"

\* C6: a moderate call to approved or rejected by an identity whose role is
\* not admin returns a permission error and leaves the status unchanged.
C6_ModerationAdminOnly ==
    \A k \in Handlers :
        (Done(k, "moderate") /\ hs[k].user.role # "admin"
           /\ hs[k].body.status \in {"approved", "rejected"})
        => hs[k].resp.status = 403 /\ StoreAsBefore

\* the change set of the request passes the whitelist and the field checks
ValidChangeSet(body) ==
    /\ DOMAIN body \cap allowedFields # {}
    /\ ~PriceRejected(Updates(body))
    /\ ~StockRejected(Updates(body))

\* C7: a patch of an existing listing with an otherwise valid change set by
\* an identity other than the owner, an admin included, returns a permission
\* error and leaves the stored listing unchanged.
C7_PatchOwnerOnly ==
    \A k \in Handlers :
        (Done(k, "patch") /\ hs[k].lid \in DOMAIN pre.listings
           /\ ValidChangeSet(hs[k].body)
           /\ pre.listings[hs[k].lid].user_id # hs[k].user.userId)
        => hs[k].resp.status = 403 /\ StoreAsBefore

\* an admin who is not the owner has been refused a valid patch
C7_Witness ==
    /\ Done(1, "patch")
    /\ hs[1].lid \in DOMAIN pre.listings
    /\ ValidChangeSet(hs[1].body)
    /\ hs[1].user.role = "admin"
    /\ pre.listings[hs[1].lid].user_id # hs[1].user.userId
    /\ hs[1].resp.status = 403

\* C8: delete removes an existing listing when the acting identity is its
\* owner or an admin, returns a permission error and keeps it for anyone
\* else, and returns NotFound for an id that does not exist.
C8_DeleteOwnerOrAdmin ==
    \A k \in Handlers :
        Done(k, "delete") =>
            LET h == hs[k] IN
            IF h.lid \notin DOMAIN pre.listings
            THEN h.resp.status = 404 /\ StoreAsBefore
            ELSE IF pre.listings[h.lid].user_id = h.user.userId \/ h.user.role = "admin"
            THEN /\ h.resp.status = 200
                 /\ DOMAIN listings = DOMAIN pre.listings \ {h.lid}
                 /\ \A i \in DOMAIN listings : listings[i] = pre.listings[i]
            ELSE h.resp.status = 403 /\ StoreAsBefore

\* an admin who is not the owner has deleted a listing
C8_Witness ==
    /\ Done(1, "delete")
    /\ hs[1].lid \in DOMAIN pre.listings
    /\ hs[1].user.role = "admin"
    /\ pre.listings[hs[1].lid].user_id # hs[1].user.userId
    /\ hs[1].resp.status = 200
    /\ hs[1].lid \notin DOMAIN listings

\* C9: deleteRating removes the rating only for the owner of its listing or
\* an admin; anyone else, the rating's author included, gets a permission
\* error with rows and aggregates unchanged; an unknown rating id gets
\* NotFound with no store mutation.
C9_DeleteRatingAuthorization ==
    \A k \in Handlers :
        Done(k, "deleteRating") =>
            LET h == hs[k]
                target == {r \in pre.ratings : r.id = h.rid}
            IN
            IF target = {}
            THEN h.resp.status = 404 /\ StoreAsBefore
            ELSE \A r \in target :
                   r.listing_id \in DOMAIN pre.listings =>
                     IF pre.listings[r.listing_id].user_id = h.user.userId
                        \/ h.user.role = "admin"
                     THEN h.resp.status = 200 /\ ratings = pre.ratings \ {r}
                     ELSE h.resp.status = 403 /\ StoreAsBefore

\* the author of a rating, neither owner nor admin, has been refused
C9_Witness ==
    /\ Done(1, "deleteRating")
    /\ hs[1].resp.status = 403
    /\ \E r \in ratings : r.id = hs[1].rid /\ r.user_id = hs[1].user.userId

\* C10: listingsByOwner returns the owner's listings of every status to the
\* owner and to an admin, and only the approved ones to an unauthenticated
\* requester or any other user.
C10_OwnerScopedVisibility ==
    \A k \in Handlers :
        Done(k, "listingsByOwner") =>
            LET h == hs[k]
                returned == {h.resp.data[n].id : n \in DOMAIN h.resp.data}
                owned == {i \in DOMAIN listings : listings[i].user_id = h.lid}
                approved == {i \in owned : listings[i].status = "approved"}
            IN IF h.user.userId = h.lid \/ h.user.role = "admin"
               THEN returned = owned
               ELSE returned = approved

\* the ids of the items of a completed list response, in order
ItemIds(h) == [n \in DOMAIN h.resp.data.data |-> h.resp.data.data[n].id]

ListAnswered(k) == Done(k, "list") /\ hs[k].resp.status = 200

\* C11: every item the paginated list returns is an approved listing, and
\* getById returns a listing only if it is approved: a pending, rejected or
\* missing one is NotFound whoever asks, its owner and an admin included.
C11_PublicReadsApprovedOnly ==
    \A k \in Handlers :
        /\ ListAnswered(k) =>
              \A n \in DOMAIN ItemIds(hs[k]) :
                  /\ ItemIds(hs[k])[n] \in DOMAIN listings
                  /\ listings[ItemIds(hs[k])[n]].status = "approved"
        /\ Done(k, "getById") =>
              IF hs[k].lid \in DOMAIN listings
                 /\ listings[hs[k].lid].status = "approved"
              THEN hs[k].resp.status = 200 /\ hs[k].resp.data.id = hs[k].lid
              ELSE hs[k].resp.status = 404

\* the owner has been answered NotFound for a listing of theirs not approved
C11_Witness ==
    /\ Done(1, "getById")
    /\ hs[1].lid \in DOMAIN listings
    /\ listings[hs[1].lid].user_id = hs[1].user.userId
    /\ listings[hs[1].lid].status # "approved"
    /\ hs[1].resp.status = 404

\* the number a page or limit parameter of the request spells
Given(q, f) == f \in DOMAIN q /\ q[f].t = "num"

\* C14: a list request with page < 1 (page = 0 included), pageSize < 1
\* (pageSize = 0 included) or pageSize > 100 gets a validation failure and no
\* items; absent parameters default to page 1 and pageSize 24.
C14_ListInputValidation ==
    \A k \in Handlers :
        Done(k, "list") =>
            LET q == hs[k].body IN
            /\ ((Given(q, "page") /\ q.page.v < 1)
                \/ (Given(q, "limit") /\ (q.limit.v < 1 \/ q.limit.v > 100)))
               => hs[k].resp.status = 400 /\ hs[k].resp.data = <<>>
            /\ (q = <<>>) =>
                  /\ hs[k].resp.status = 200
                  /\ hs[k].resp.data.pagination.currentPage = 1
                  /\ hs[k].updates.limit = 24

\* the approved listings matching the filters of request h
Matching(h) ==
    {i \in DOMAIN listings :
        /\ listings[i].status = "approved"
        /\ (h.updates.search # "" => ILike(listings[i].title, h.updates.search))
        /\ (h.updates.category \notin {"", "All"}
              => listings[i].category = h.updates.category)}

Least(a, b) == IF a < b THEN a ELSE b

\* C15: for an accepted page >= 1 and 1 <= pageSize <= 100 on a fixed store,
\* at most pageSize items are returned, the window starts at offset
\* (page-1)*pageSize, totalItems is the number of approved listings matching
\* the filters, totalPages is ceil(totalItems/pageSize), hasNext is
\* page*pageSize < totalItems and hasPrev is page > 1.
C15_PaginationMetadata ==
    \A k \in Handlers :
        ListAnswered(k) =>
            LET h == hs[k]
                page == h.updates.page
                size == h.updates.limit
                meta == h.resp.data.pagination
                total == Cardinality(Matching(h))
                skipped == (page - 1) * size
                ids == ItemIds(h)
            IN
            /\ page >= 1 /\ size >= 1 /\ size <= 100
            /\ Len(ids) <= size
            /\ Len(ids) = IF skipped >= total THEN 0 ELSE Least(size, total - skipped)
            /\ \A n \in DOMAIN ids : ids[n] \in Matching(h)
            /\ \A n, m \in DOMAIN ids : n # m => ids[n] # ids[m]
            /\ h.updates.sort \notin {"price-low", "price-high"} =>
                  \A n \in DOMAIN ids :
                      Cardinality({i \in Matching(h) : i > ids[n]}) = skipped + n - 1
            /\ meta.totalItems = total
            /\ meta.totalPages * size >= total
            /\ (meta.totalPages > 0 => (meta.totalPages - 1) * size < total)
            /\ meta.totalPages >= 0
            /\ meta.hasNext = (page * size < total)
            /\ meta.hasPrev = (page > 1)

\* page 2 of size 2 over three approved listings holds the oldest one
C15_Witness ==
    /\ ListAnswered(1)
    /\ hs[1].updates.page = 2
    /\ hs[1].updates.limit = 2
    /\ hs[1].resp.data.pagination.totalItems = 3
    /\ hs[1].resp.data.pagination.totalPages = 2
    /\ ItemIds(hs[1]) = <<1>>

\* C16: with sortKey price-low (price-high) adjacent items have
\* non-decreasing (non-increasing) price, with newest or an unknown sortKey
\* they are in creation-time descending order, and items of equal price are
\* in creation-time descending order.
C16_DeterministicSortOrder ==
    \A k \in Handlers :
        ListAnswered(k) =>
            LET h == hs[k]
                ids == ItemIds(h)
                price(n) == listings[ids[n]].price
            IN \A n \in DOMAIN ids :
                  (n + 1) \in DOMAIN ids =>
                      IF h.updates.sort = "price-low"
                      THEN price(n) < price(n + 1)
                           \/ (price(n) = price(n + 1) /\ ids[n] > ids[n + 1])
                      ELSE IF h.updates.sort = "price-high"
                      THEN price(n) > price(n + 1)
                           \/ (price(n) = price(n + 1) /\ ids[n] > ids[n + 1])
                      ELSE ids[n] > ids[n + 1]

\* the keys a patch accepts according to the whitelist as stated
StatedWhitelist ==
    {"title", "description", "price", "condition", "whatsapp_phone", "image_urls",
     "stock_quantity", "category", "variants"}

\* request k is a patch of an existing listing by its owner
OwnerPatch(k) ==
    /\ Done(k, "patch")
    /\ hs[k].lid \in DOMAIN pre.listings
    /\ pre.listings[hs[k].lid].user_id = hs[k].user.userId

\* C12: a patch accepts only title, description, price, condition,
\* whatsapp_phone, image_urls, stock_quantity, category and variants: a patch
\* by the owner with only other keys gets the 'nothing to update' validation
\* error and leaves the record unchanged, and other keys that accompany
\* valid ones are ignored.
C12_PatchWhitelist ==
    \A k \in Handlers :
        OwnerPatch(k) =>
            /\ (DOMAIN hs[k].body \cap StatedWhitelist = {})
               => /\ hs[k].resp.status = 400
                  /\ hs[k].resp.message = "No valid fields provided for update"
                  /\ StoreAsBefore
            /\ hs[k].lid \in DOMAIN listings
            /\ \A f \in DOMAIN pre.listings[hs[k].lid] \ StatedWhitelist :
                  listings[hs[k].lid][f] = pre.listings[hs[k].lid][f]

\* the patch body carries a price, stock_quantity or variants value that the
\* field rules refuse
RefusedField(body) ==
    \/ "price" \in DOMAIN body
       /\ (Number(body.price).nan \/ Number(body.price).v <= 0)
    \/ "stock_quantity" \in DOMAIN body
       /\ (Number(body.stock_quantity).nan \/ Number(body.stock_quantity).v < 0)
    \/ "variants" \in DOMAIN body /\ body.variants.t # "arr"

\* C13: a patch with a price that does not coerce to a number > 0, a
\* stock_quantity that does not coerce to a number >= 0 or a variants value
\* that is not a sequence returns an error and changes no field of the stored
\* listing, also when it carries other valid whitelisted fields.
C13_PatchFailsFast ==
    \A k \in Handlers :
        (Done(k, "patch") /\ RefusedField(hs[k].body))
        => hs[k].resp.status >= 400 /\ StoreAsBefore

\* the owner's patch of title and a non-sequence variants value was refused
\* after the ownership check, with the title left as it was
C13_Witness ==
    /\ OwnerPatch(1)
    /\ "title" \in DOMAIN hs[1].body
    /\ "variants" \in DOMAIN hs[1].body
    /\ hs[1].body.variants.t # "arr"
    /\ hs[1].resp.message = "Variants must be an array"
    /\ listings[hs[1].lid].title # hs[1].body.title.v

\* the entry has a color or size that is a non-empty string after trim
HasOption(v) ==
    \E f \in {"color", "size"} : f \in DOMAIN v /\ v[f].t = "str" /\ Trim(v[f].v) # ""

\* the entries the sanitizer keeps as stated: an option and a numeric stock >= 0
StatedKept(v) ==
    /\ "t" \notin DOMAIN v
    /\ HasOption(v)
    /\ "stock" \in DOMAIN v /\ v.stock.t = "num" /\ v.stock.v >= 0

\* request k carries a variants sequence and nothing else that is refused
SanitizingCreate(k) ==
    /\ Done(k, "create")
    /\ "variants" \in DOMAIN hs[k].body
    /\ hs[k].body.variants.t = "arr"
    /\ hs[k].body.title.t = "str"
    /\ hs[k].resp.status # 400

SanitizingPatch(k) ==
    /\ OwnerPatch(k)
    /\ DOMAIN hs[k].body = {"variants"}
    /\ hs[k].body.variants.t = "arr"

\* C17: for every input sequence, on create and on patch alike, the stored
\* variant list is the order-preserving subsequence of exactly the entries
\* with a non-empty color or size and a numeric stock >= 0; the others are
\* dropped without an error, and a sanitized list is stored unchanged.
C17_VariantSanitization ==
    \A k \in Handlers :
        /\ SanitizingCreate(k) =>
              /\ hs[k].resp.status = 201
              /\ listings[hs[k].resp.data.id].variants
                    = SelectSeq(hs[k].body.variants.v, StatedKept)
        /\ SanitizingPatch(k) =>
              /\ hs[k].resp.status = 200
              /\ listings[hs[k].lid].variants
                    = SelectSeq(hs[k].body.variants.v, StatedKept)

\* the create body has an empty title, a price that is not a number > 0, a
\* stock quantity < 1 or a variants value that is not a sequence
RefusedBody(body) ==
    \/ "title" \notin DOMAIN body
    \/ body.title.t = "str" /\ Trim(body.title.v) = ""
    \/ "price" \notin DOMAIN body
    \/ Number(body.price).nan
    \/ Number(body.price).v <= 0
    \/ "stock_quantity" \in DOMAIN body
       /\ ~Number(body.stock_quantity).nan /\ Number(body.stock_quantity).v < 1
    \/ "variants" \in DOMAIN body /\ body.variants.t # "arr"

C19_RatingValueRange ==
    /\ \A k \in Handlers :
          (Done(k, "rate")
             /\ (2 * hs[k].val + hs[k].body.half < 2
                 \/ 2 * hs[k].val + hs[k].body.half > 10))
          => hs[k].resp.status = 400 /\ StoreAsBefore
    /\ \A r \in ratings : r.half = 0 /\ r.rating \in 1..5

\* C20: in every reachable state every rating row references a listing that
\* exists: a rate on a missing listing inserts nothing, deleting a listing
\* removes the ratings that reference it, and this holds for every
\* interleaving of a rate handler with a concurrent delete of the listing.
C20_NoOrphanRatings == \A r \in ratings : r.listing_id \in DOMAIN listings

\* C23: the rating invariant holds in every reachable store state, also
\* between the statements of a handler: no state has a rating row inserted or
\* deleted while the listing's rating_count and average_rating do not yet
\* reflect it.
C23_AggregateAtomicity ==
    \A lid \in DOMAIN listings :
        /\ listings[lid].rating_count = Cardinality(Rows(lid))
        /\ listings[lid].average_rating * Cardinality(Rows(lid))
               = 100 * SumRating(Rows(lid))

\* C25: in every reachable state, under any interleaving of rate and
\* deleteRating handlers, each listing's rating_count is an integer >= 0 and
\* its average_rating is a defined (non-null) number in [0, 5].
C25_DerivedFieldRanges ==
    \A lid \in DOMAIN listings :
        /\ listings[lid].rating_count \in Nat
        /\ listings[lid].average_rating # Null
        /\ listings[lid].average_rating >= 0
        /\ listings[lid].average_rating <= 100 * MaxRating

\* a moderate call with a target value other than approved and rejected is a
\* validation error, one for a missing listing is NotFound, both without
\* mutation
ModerateRefusals ==
    \A k \in Handlers :
        Done(k, "moderate") =>
            /\ hs[k].body.status \notin {"approved", "rejected"}
                 => hs[k].resp.status = 400 /\ StoreAsBefore
            /\ (hs[k].body.status \in {"approved", "rejected"}
                  /\ hs[k].lid \notin DOMAIN pre.listings)
                 => hs[k].resp.status = 404 /\ StoreAsBefore

\* one step of the store, for every listing that exists before and after it:
\* the owner id is the same, a changed status is the target value of a
\* moderate call for that listing answered in this step, and a status other
\* than pending does not become pending
Lifecycle ==
    \A lid \in DOMAIN listings \cap DOMAIN listings' :
        /\ listings'[lid].user_id = listings[lid].user_id
        /\ listings'[lid].status # listings[lid].status
             => \E k \in Handlers :
                   /\ hs[k].pc = "idle"
                   /\ hs'[k].pc = "done" /\ hs'[k].op = "moderate"
                   /\ hs'[k].lid = lid
                   /\ hs'[k].body.status = listings'[lid].status
                   /\ listings'[lid].status \in {"approved", "rejected"}
        /\ listings[lid].status # "pending" => listings'[lid].status # "pending"

\* C27: across every sequence of operations a listing's owner id never
\* changes after creation, its status changes only as the effect of a
\* moderate call, moderate accepts only the target values approved and
\* rejected (any other value is a validation error, a missing listing is
\* NotFound, both without mutation), and so a listing that has left pending
\* never returns to pending.
C27_StatusOwnershipLifecycle == []ModerateRefusals /\ [][Lifecycle]_vars

\* a listing that had been approved has been moderated again, to rejected,
\* after its owner patched it
C27_Witness ==
    /\ Done(1, "moderate") /\ hs[1].resp.status = 200
    /\ hs[1].lid \in DOMAIN pre.listings
    /\ pre.listings[hs[1].lid].status = "approved"
    /\ listings[hs[1].lid].status = "rejected"
    /\ listings[hs[1].lid].price # ValidBody.price.v

\* the value a successful patch stores for whitelisted field f of the body:
\* price and stock_quantity as numbers, variants filtered, the rest as sent
PatchedValue(body, f) ==
    IF f \in {"price", "stock_quantity"} THEN Number(body[f]).v
    ELSE IF f = "variants" THEN Sanitize(body[f].v).v
    ELSE body[f].v

\* C26: a successful patch sets exactly the whitelisted fields (title,
\* description, price, condition, whatsapp_phone, image_urls, stock_quantity,
\* category, variants) present in the request to their coerced values and
\* leaves every other field of that listing (id, owner id, status,
\* average_rating, rating_count and the whitelisted fields not in the
\* request), every other listing and every rating unchanged; the response is
\* the full updated record.
C26_PatchFrame ==
    \A k \in Handlers :
        (Done(k, "patch") /\ hs[k].resp.status = 200) =>
            LET lid == hs[k].lid
                body == hs[k].body
            IN
            /\ DOMAIN listings = DOMAIN pre.listings
            /\ lid \in DOMAIN listings
            /\ DOMAIN listings[lid] = DOMAIN pre.listings[lid]
            /\ \A f \in DOMAIN listings[lid] :
                  listings[lid][f] =
                      IF f \in DOMAIN body \cap StatedWhitelist
                      THEN PatchedValue(body, f)
                      ELSE pre.listings[lid][f]
            /\ \A other \in DOMAIN listings \ {lid} :
                  listings[other] = pre.listings[other]
            /\ ratings = pre.ratings
            /\ hs[k].resp.data = listings[lid]

\* the rate handlers that have completed successfully after running while
\* another handler was between its statements
OverlappedRates ==
    {k \in Handlers : Done(k, "rate") /\ hs[k].resp.status = 201 /\ hs[k].conc}

DistinctRaters(K) == \A i, j \in K : i # j => hs[i].user.userId # hs[j].user.userId

\* C24 as stated: when rate handlers of two or more distinct users run
\* concurrently on one listing in any interleaving of their statements, once
\* all have completed rating_count is the number of rating rows of the listing
\* and average_rating is exactly their mean.
C24_ConcurrentRatersExactMean ==
    (Quiescent /\ Cardinality(OverlappedRates) >= 2 /\ DistinctRaters(OverlappedRates))
    => \A lid \in DOMAIN listings : CountMatches(lid) /\ MeanExact(lid)

\* C24 amended: once they have completed, rating_count is the number of
\* rating rows and average_rating is their mean rounded to two decimal places.
C24_ConcurrentRatersConverge ==
    (Quiescent /\ Cardinality(OverlappedRates) >= 2 /\ DistinctRaters(OverlappedRates))
    => \A lid \in DOMAIN listings : CountMatches(lid) /\ MeanRounded(lid)

\* two overlapping rate handlers of distinct users have completed on a
\* listing rated before, and the mean of its rows has more than two decimals
C24_Witness ==
    /\ Quiescent
    /\ Cardinality(OverlappedRates) >= 2
    /\ DistinctRaters(OverlappedRates)
    /\ Cardinality(Rows(1)) = NumPrior + 2
    /\ ~MeanExact(1)

\* in the store (ls, rs) every listing's rating_count is the number of its
\* rating rows and its average_rating is their mean, 0 over no rows
Consistent(ls, rs) ==
    \A lid \in DOMAIN ls :
        LET rows == {r \in rs : r.listing_id = lid}
            n == Cardinality(rows)
        IN /\ ls[lid].rating_count = n
           /\ IF n = 0 THEN ls[lid].average_rating = 0
              ELSE ls[lid].average_rating * n = 100 * SumRating(rows)

\* worker 1 shows the failure response of a rate or deleteRating call and
\* worker 2 has completed the retry of that call without a store failure
Retried ==
    /\ hs[1].pc = "done" /\ hs[1].resp.status = 500
    /\ hs[1].op \in {"rate", "deleteRating"}
    /\ hs[2].pc = "done" /\ hs[2].resp.status # 500

\* C21: when the store fails at one statement of rate or deleteRating, then
\* after the failure response every listing's rating_count is the number of
\* its rating rows and its average_rating is their mean (this is the store at
\* the start of the retry), or a retry of the same call restores that.
C21_FailureKeepsAggregates ==
    Retried => Consistent(pre.listings, pre.ratings) \/ Consistent(listings, ratings)

\* C22: when a store call fails, the response of every operation is a
\* generic failure whose body carries no text of the store's error object.
C22_GenericStoreFailure ==
    \A k \in Handlers :
        (hs[k].pc = "done" /\ hs[k].resp.status = 500) =>
            /\ hs[k].resp.message # StoreError
            /\ \A f \in DOMAIN hs[k].resp.data : hs[k].resp.data[f] # StoreError

\* C28: after a user has deleted their own account (their ratings, then
\* their listings, then the user row), every remaining listing that the user
\* had rated has rating_count equal to the number of rating rows that
\* reference it and average_rating equal to their mean (0 when none).
C28_AccountDeletionKeepsAggregates ==
    \A k \in Handlers :
        (Done(k, "deleteAccount") /\ hs[k].resp.status = 200) =>
            \A lid \in DOMAIN listings :
                (\E r \in pre.ratings :
                     r.user_id = hs[k].user.userId /\ r.listing_id = lid)
                => CountMatches(lid) /\ MeanExact(lid)

====
